---- MODULE Spec2Model ----
(***************************************************************************)
(* Model of sbc.system.Model (src/sbc/system.py): the constructor that     *)
(* resolves the chain length L from z_fields, x_fields and zz_couplers,    *)
(* normalises the three arrays into arrays of sbc.scalar.Scalar objects    *)
(* that are shared between equal raw entries, and computes the map between *)
(* site indices and unique x-fields.                                       *)
(*                                                                         *)
(* Python sequences are objects on a heap, addressed by references, so    *)
(* that copying (ctor_param[:]) and aliasing are distinguishable; a tuple   *)
(* refuses item assignment.  Scalar       *)
(* objects carry an identity (id), so that "the same object" and "equal by *)
(* value" are distinguishable.  Loop indices idx1, idx2 keep their 0-based *)
(* Python values; sequences are indexed by idx+1.                          *)
(***************************************************************************)
EXTENDS Integers, Sequences, FiniteSets, TLC

\* Largest chain length of the enumerated inputs.
MaxLen == 3
\* Plain numbers 0 .. NumVals-1 may appear as raw elements.
NumVals == 2
\* Number of Scalar objects the caller built before the call.
NumScalars == 3

VARIABLES
    pc,               \* position inside Model.__init__
    z_fields,         \* argument: reference to the caller's list, or NoneRef
    x_fields,         \* argument
    zz_couplers,      \* argument
    heap,             \* sequence objects: reference -> their elements
    kind,             \* sequence objects: reference -> "list" or "tuple"
    heap0,            \* the heap as it was when the constructor was called
    L,                \* self.L
    self_x_fields,    \* self.x_fields (a reference)
    self_z_fields,    \* self.z_fields
    self_zz_couplers, \* self.zz_couplers
    result,           \* self._map_btwn_site_indices_and_unique_x_fields
    which,            \* which attribute the running _construct_attribute builds
    ctor_param,       \* local of _construct_attribute (a reference)
    array_size,       \* local of _construct_attribute
    attribute,        \* local of _construct_attribute (a reference)
    elem_already_set, \* local of _construct_attribute
    idx1,             \* local of _construct_attribute
    idx2,             \* local of _construct_attribute
    nextId,           \* identity the next Scalar object gets
    err               \* the exception that left the constructor, or "none"

vars == <<pc, z_fields, x_fields, zz_couplers, heap, kind, heap0, L, self_x_fields,
          self_z_fields, self_zz_couplers, result, which, ctor_param,
          array_size, attribute, elem_already_set, idx1, idx2, nextId, err>>

-----------------------------------------------------------------------------
(* Values *)

\* A plain Python number.
Num(v) == [kind |-> "num", id |-> 0, val |-> v, wraps |-> 0]

\* A Scalar object: id is its identity, val the value it represents, wraps
\* the number of Scalar constructors around the plain value.
ScalarObj(i, v, w) == [kind |-> "Scalar", id |-> i, val |-> v, wraps |-> w]

\* The Scalar objects the caller built: objects 1 and 2 represent the same
\* value, later ones other values.
PoolScalar(k) == ScalarObj(k, ((k + 1) \div 2) % NumVals, 1)

\* sbc.scalar.Scalar(x)
Scalar(x, newId) == ScalarObj(newId, x.val, x.wraps + 1)

\* isinstance(e, Scalar)
IsScalar(e) == e.kind = "Scalar"

\* Scalar.__eq__: equality by value.
ScalarEq(a, b) == a.val = b.val

\* Python's a == b on raw elements: numbers compare by value, Scalar objects
\* by Scalar.__eq__, and a number never equals a Scalar object.
PyEq(a, b) ==
    IF IsScalar(a) /\ IsScalar(b) THEN ScalarEq(a, b)
    ELSE IF ~IsScalar(a) /\ ~IsScalar(b) THEN a.val = b.val
    ELSE FALSE

-----------------------------------------------------------------------------
(* References and the heap *)

Attrs == {"x", "z", "zz"}
NoneRef == <<"None", "-">>
InRef(w) == <<"in", w>>         \* the caller's list
ZerosRef(w) == <<"zeros", w>>   \* the list made by [0] * array_size
CopyRef(w) == <<"copy", w>>     \* the list made by ctor_param[:]
Refs == {"in", "zeros", "copy"} \X Attrs

\* [0] * n
ZeroList(n) == [i \in 1..n |-> Num(0)]

\* [False] * n
FalseList(n) == [i \in 1..n |-> FALSE]

\* list(range(n))
RangeList(n) == [i \in 1..n |-> i - 1]

-----------------------------------------------------------------------------
(* The inputs the constructor is called with *)

\* Raw elements: plain numbers and Scalar objects built by the caller.
Elems == {Num(v) : v \in 0..(NumVals - 1)} \cup {PoolScalar(k) : k \in 1..NumScalars}

\* The largest list an argument can be, for a chain of at most MaxLen sites.
MaxArgLen(w) == IF w = "zz" THEN MaxLen - 1 ELSE MaxLen

\* The lists of length m an argument ranges over: every list of raw elements
\* for the argument in focus, the list of plain 1s for the two others.
ListsOf(w, focus, m) ==
    IF w = focus THEN [1..m -> Elems] ELSE {[i \in 1..m |-> Num(1)]}

\* An argument: None, or a list or tuple of elements.
Arg(isNone, k, l) == [none |-> isNone, kind |-> k, list |-> l]

\* The kinds of sequence an argument ranges over: the argument in focus is a
\* list or a tuple, the two others are lists.
KindsOf(w, focus) == IF w = focus THEN {"list", "tuple"} ELSE {"list"}

\* An assignment of arguments to the three parameters.
Triple(zf, xf, zzf) == [z |-> zf, x |-> xf, zz |-> zzf]

RefOfArg(a, w) == IF a[w].none THEN NoneRef ELSE InRef(w)

InitHeap(a) == [r \in Refs |-> IF r[1] = "in" THEN a[r[2]].list ELSE << >>]

InitKind(a) == [r \in Refs |-> IF r[1] = "in" THEN a[r[2]].kind ELSE "list"]

\* The state in which __init__ is entered with the arguments a.
Called(a) ==
    /\ z_fields = RefOfArg(a, "z")
    /\ x_fields = RefOfArg(a, "x")
    /\ zz_couplers = RefOfArg(a, "zz")
    /\ heap = InitHeap(a)
    /\ kind = InitKind(a)
    /\ heap0 = InitHeap(a)
    /\ pc = "determine_L"
    /\ L = 0
    /\ self_x_fields = NoneRef
    /\ self_z_fields = NoneRef
    /\ self_zz_couplers = NoneRef
    /\ result = << >>
    /\ which = "-"
    /\ ctor_param = NoneRef
    /\ array_size = 0
    /\ attribute = NoneRef
    /\ elem_already_set = << >>
    /\ idx1 = 0
    /\ idx2 = 0
    /\ nextId = NumScalars + 1
    /\ err = "none"

\* Each argument is None or a list of any length, compatible with the others
\* or not; one argument ranges over all lists, the two others over plain ones.
Init ==
    \E focus \in Attrs :
    \E nz \in BOOLEAN, nx \in BOOLEAN, nzz \in BOOLEAN :
    \E lz \in 0..MaxArgLen("z"), lx \in 0..MaxArgLen("x"), lzz \in 0..MaxArgLen("zz") :
    \E kz \in KindsOf("z", focus), kx \in KindsOf("x", focus), kzz \in KindsOf("zz", focus) :
        /\ nz => lz = 0 /\ kz = "list"
        /\ nx => lx = 0 /\ kx = "list"
        /\ nzz => lzz = 0 /\ kzz = "list"
        /\ \E zl \in ListsOf("z", focus, lz), xl \in ListsOf("x", focus, lx),
              zzl \in ListsOf("zz", focus, lzz) :
               Called(Triple(Arg(nz, kz, zl), Arg(nx, kx, xl), Arg(nzz, kzz, zzl)))

-----------------------------------------------------------------------------
(* Model._determine_L *)

\* A variant that forgets that L sites have L-1 bonds.
ImpliedL_NoOffset(w, n) == n

\* The length a non-empty argument implies: len(z_fields), len(x_fields),
\* len(zz_couplers)+1.
ImpliedL(w, n) == IF w = "zz" THEN n + 1 ELSE n

\* The contribution of one argument to candidate_Ls.
Candidate(ref, w, h) ==
    IF ref # NoneRef
    THEN IF Len(h[ref]) # 0 THEN {ImpliedL(w, Len(h[ref]))} ELSE {}
    ELSE {}

candidate_Ls(zf, xf, zzf, h) ==
    Candidate(zf, "z", h) \cup Candidate(xf, "x", h) \cup Candidate(zzf, "zz", h)

\* elif len(candidate_Ls) != 1: raise IndexError(...)
Incompatible(c) == Cardinality(c) # 0 /\ Cardinality(c) # 1

\* The value _determine_L returns when it does not raise.
ResolvedL(c) == IF Cardinality(c) = 0 THEN 1 ELSE CHOOSE l \in c : TRUE

DetermineL ==
    /\ pc = "determine_L"
    /\ LET c == candidate_Ls(z_fields, x_fields, zz_couplers, heap) IN
           IF Incompatible(c)
           THEN /\ err' = "DimensionMismatch"
                /\ pc' = "raised"
                /\ UNCHANGED <<L, which>>
           ELSE /\ L' = ResolvedL(c)
                /\ pc' = "construct_begin"
                /\ which' = "x"
                /\ UNCHANGED err
    /\ UNCHANGED <<z_fields, x_fields, zz_couplers, heap, kind, heap0, self_x_fields,
                   self_z_fields, self_zz_couplers, result, ctor_param,
                   array_size, attribute, elem_already_set, idx1, idx2, nextId>>

-----------------------------------------------------------------------------
(* Model._construct_attribute *)

\* The parameter and the size each call in __init__ passes.
ArgOf(w) == IF w = "x" THEN x_fields ELSE IF w = "z" THEN z_fields ELSE zz_couplers

\* A variant that sizes the couplers like the fields.
ArraySize_SameForAll(w, l) == l

ArraySize(w, l) == IF w = "zz" THEN l - 1 ELSE l

\* A variant without the test for an empty argument.
IsMissing_NoneOnly(ref, h) == ref = NoneRef

\* if ctor_param == None: ...   if len(ctor_param) == 0: ...
IsMissing(ref, h) == IF ref = NoneRef THEN TRUE ELSE Len(h[ref]) = 0

\* A variant that binds attribute to the object ctor_param names.
SliceCopy_Alias(cp, w) == cp

\* ctor_param[:] makes a new object.
SliceCopy(cp, w) == CopyRef(w)

\* A variant that wraps every element.
NeedsWrap_Always(e) == TRUE

\* if not isinstance(attribute[idx1], Scalar)
NeedsWrap(e) == ~IsScalar(e)

\* if ctor_param[idx2] == ctor_param[idx1]
RawEqual(raw, i, j) == PyEq(raw[j + 1], raw[i + 1])

\* A variant that leaves position idx2 alone.
Share_Skip(attr, i, j) == attr

\* attribute[idx2] = attribute[idx1]
Share(attr, i, j) == [attr EXCEPT ![j + 1] = attr[i + 1]]

\* attribute[...] = ... raises TypeError when attribute is a tuple.
ItemAssignable(k) == k = "list"

\* A subscript of a list of length n that raises IndexError.
OutOfRange(i, n) == i >= n

\* Lines 185-191: defaults, the copy and the flags.
ConstructBegin ==
    /\ pc = "construct_begin"
    /\ LET n  == ArraySize(which, L)
           cp == IF IsMissing(ArgOf(which), heap) THEN ZerosRef(which) ELSE ArgOf(which)
           h1 == IF cp = ZerosRef(which)
                 THEN [heap EXCEPT ![cp] = ZeroList(n)]
                 ELSE heap
           at == SliceCopy(cp, which)
       IN  /\ array_size' = n
           /\ ctor_param' = cp
           /\ attribute' = at
           /\ heap' = [h1 EXCEPT ![at] = h1[cp]]
           /\ kind' = [kind EXCEPT ![at] = kind[cp]]
    /\ elem_already_set' = FalseList(L)
    /\ idx1' = 0
    /\ idx2' = 0
    /\ pc' = "outer"
    /\ UNCHANGED <<z_fields, x_fields, zz_couplers, heap0, L, self_x_fields,
                   self_z_fields, self_zz_couplers, result, which, nextId, err>>

\* Lines 192-194: the head of the outer loop and the wrapping of position idx1.
OuterStep ==
    /\ pc = "outer"
    /\ IF idx1 >= array_size
       THEN /\ pc' = "construct_return"
            /\ UNCHANGED <<heap, nextId, idx2, err>>
       ELSE IF OutOfRange(idx1, Len(heap[attribute]))
       THEN /\ pc' = "raised"
            /\ err' = "IndexOutOfRange"
            /\ UNCHANGED <<heap, nextId, idx2>>
       ELSE IF NeedsWrap(heap[attribute][idx1 + 1]) /\ ~ItemAssignable(kind[attribute])
       THEN /\ pc' = "raised"
            /\ err' = "TypeError"
            /\ UNCHANGED <<heap, nextId, idx2>>
       ELSE /\ IF NeedsWrap(heap[attribute][idx1 + 1])
               THEN /\ heap' = [heap EXCEPT ![attribute][idx1 + 1] =
                                    Scalar(heap[attribute][idx1 + 1], nextId)]
                    /\ nextId' = nextId + 1
               ELSE UNCHANGED <<heap, nextId>>
            /\ idx2' = idx1 + 1
            /\ pc' = "inner"
            /\ UNCHANGED err
    /\ UNCHANGED <<z_fields, x_fields, zz_couplers, kind, heap0, L, self_x_fields,
                   self_z_fields, self_zz_couplers, result, which, ctor_param,
                   array_size, attribute, elem_already_set, idx1>>

\* Lines 195-198: one round of the inner loop, or its end.
InnerStep ==
    /\ pc = "inner"
    /\ IF idx2 >= array_size
       THEN /\ idx1' = idx1 + 1
            /\ pc' = "outer"
            /\ UNCHANGED <<heap, elem_already_set, idx2, err>>
       ELSE IF OutOfRange(idx2, Len(heap[ctor_param]))
       THEN /\ pc' = "raised"
            /\ err' = "IndexOutOfRange"
            /\ UNCHANGED <<heap, elem_already_set, idx1, idx2>>
       ELSE IF RawEqual(heap[ctor_param], idx1, idx2) /\ ~ItemAssignable(kind[attribute])
       THEN /\ pc' = "raised"
            /\ err' = "TypeError"
            /\ UNCHANGED <<heap, elem_already_set, idx1, idx2>>
       ELSE /\ IF RawEqual(heap[ctor_param], idx1, idx2)
               THEN /\ heap' = [heap EXCEPT ![attribute] = Share(heap[attribute], idx1, idx2)]
                    /\ elem_already_set' = [elem_already_set EXCEPT ![idx2 + 1] = TRUE]
               ELSE UNCHANGED <<heap, elem_already_set>>
            /\ idx2' = idx2 + 1
            /\ UNCHANGED <<pc, idx1, err>>
    /\ UNCHANGED <<z_fields, x_fields, zz_couplers, kind, heap0, L, self_x_fields,
                   self_z_fields, self_zz_couplers, result, which, ctor_param,
                   array_size, attribute, nextId>>

\* Line 200 and the assignment of lines 149-151.
ConstructReturn ==
    /\ pc = "construct_return"
    /\ self_x_fields' = IF which = "x" THEN attribute ELSE self_x_fields
    /\ self_z_fields' = IF which = "z" THEN attribute ELSE self_z_fields
    /\ self_zz_couplers' = IF which = "zz" THEN attribute ELSE self_zz_couplers
    /\ which' = IF which = "x" THEN "z" ELSE IF which = "z" THEN "zz" ELSE "-"
    /\ pc' = IF which = "zz" THEN "calc_map" ELSE "construct_begin"
    /\ ctor_param' = NoneRef
    /\ attribute' = NoneRef
    /\ array_size' = 0
    /\ elem_already_set' = << >>
    /\ idx1' = 0
    /\ idx2' = 0
    /\ UNCHANGED <<z_fields, x_fields, zz_couplers, heap, kind, heap0, L, result,
                   nextId, err>>

-----------------------------------------------------------------------------
(* Model._calc_map_btwn_site_indices_and_unique_x_fields *)

\* A variant that compares the objects' identities.
FieldsIdentical(xs, i, j) == xs[j + 1].id = xs[i + 1].id

\* if self.x_fields[idx2] == self.x_fields[idx1]
FieldsEqual(xs, i, j) == ScalarEq(xs[j + 1], xs[i + 1])

\* A variant that stores idx1 itself.
MapAssign_Index(res, i, j) == [res EXCEPT ![j + 1] = i]

\* result[idx2] = result[idx1]
MapAssign(res, i, j) == [res EXCEPT ![j + 1] = res[i + 1]]

RECURSIVE MapInner(_, _, _, _, _)
MapInner(res, xs, i, j, n) ==
    IF j >= n THEN res
    ELSE MapInner(IF FieldsEqual(xs, i, j) THEN MapAssign(res, i, j) ELSE res,
                  xs, i, j + 1, n)

RECURSIVE MapOuter(_, _, _, _)
MapOuter(res, xs, i, n) ==
    IF i >= n THEN res
    ELSE MapOuter(MapInner(res, xs, i, i + 1, n), xs, i + 1, n)

CalcMap ==
    /\ pc = "calc_map"
    /\ IF Len(heap[self_x_fields]) < L
       THEN /\ pc' = "raised"
            /\ err' = "IndexOutOfRange"
            /\ UNCHANGED result
       ELSE /\ result' = MapOuter(RangeList(L), heap[self_x_fields], 0, L)
            /\ pc' = "done"
            /\ UNCHANGED err
    /\ UNCHANGED <<z_fields, x_fields, zz_couplers, heap, kind, heap0, L, self_x_fields,
                   self_z_fields, self_zz_couplers, which, ctor_param,
                   array_size, attribute, elem_already_set, idx1, idx2, nextId>>

-----------------------------------------------------------------------------

Next ==
    \/ DetermineL
    \/ ConstructBegin
    \/ OuterStep
    \/ InnerStep
    \/ ConstructReturn
    \/ CalcMap

Spec == Init /\ [][Next]_vars

-----------------------------------------------------------------------------
(* What the properties speak about *)

\* The sequence the caller passed for w, as it was at the call.
InList(w) == heap0[InRef(w)]

\* The argument w is present and non-empty.
Supplied(w) == ArgOf(w) # NoneRef /\ Len(InList(w)) > 0

\* The chain length a supplied argument stands for.
LenImplied(w) == IF w = "zz" THEN Len(InList(w)) + 1 ELSE Len(InList(w))

\* The supplied arguments stand for one chain length.
Agree == \A v \in Attrs, w \in Attrs :
             Supplied(v) /\ Supplied(w) => LenImplied(v) = LenImplied(w)

\* The number of entries attribute w must have.
RequiredSize(w) == IF w = "zz" THEN L - 1 ELSE L

SelfRef(w) == IF w = "x" THEN self_x_fields
              ELSE IF w = "z" THEN self_z_fields ELSE self_zz_couplers

\* The normalized sequence of attribute w.
Normalized(w) == heap[SelfRef(w)]

\* The raw values normalization starts from: the argument, or zeros.
RawOf(w) == IF Supplied(w) THEN InList(w) ELSE [i \in 1..RequiredSize(w) |-> Num(0)]

\* The first position holding the raw value of position i.
FirstHolding(raw, i) ==
    CHOOSE k \in 1..i : /\ PyEq(raw[k], raw[i])
                        /\ \A m \in 1..(k - 1) : ~PyEq(raw[m], raw[i])

\* The smallest site whose x-field equals that of site r (sites count from 1 here).
SmallestEqual(xs, r) ==
    CHOOSE k \in 1..r : /\ ScalarEq(xs[k], xs[r])
                        /\ \A m \in 1..(k - 1) : ~ScalarEq(xs[m], xs[r])

-----------------------------------------------------------------------------
(* Properties *)

\* C1: whenever the supplied (non-empty) arguments agree, the resolved L is 1
\* if none is supplied and otherwise the common implied length: len(z_fields),
\* len(x_fields), len(zz_couplers)+1.
C1_LengthResolution ==
    (pc # "determine_L" /\ Agree) =>
        /\ err # "DimensionMismatch"
        /\ (\A w \in Attrs : ~Supplied(w)) => L = 1
        /\ \A w \in Attrs : Supplied(w) => L = LenImplied(w)

C1_Witness ==
    /\ pc = "done"
    /\ x_fields = NoneRef
    /\ Supplied("z")
    /\ Len(InList("zz")) = 2
    /\ L = 3

\* C2: construction fails if and only if the supplied arguments imply more
\* than one chain length, and then with the dimension error; no other error
\* leaves the constructor.
C2_OnlyDimensionMismatch ==
    /\ err # "none" => err = "DimensionMismatch"
    /\ err = "DimensionMismatch" => ~Agree
    /\ (pc # "determine_L" /\ ~Agree) => err = "DimensionMismatch"

\* When every argument is a list (or None), C2 holds.
C2_HoldsForLists ==
    (\A w \in Attrs : kind[InRef(w)] = "list") => C2_OnlyDimensionMismatch

\* C3: after construction, in each normalized sequence, positions whose raw values are equal hold
\* the very same object, and it is the object of the first position with that
\* raw value: the caller's Scalar if that one is a Scalar, else the Scalar
\* created for it.
C3_Sharing ==
    \A w \in Attrs :
        pc = "done" =>
            LET raw == RawOf(w)
                out == Normalized(w)
            IN  \A i \in 1..Len(raw), j \in 1..Len(raw) :
                    (i < j /\ PyEq(raw[i], raw[j])) =>
                        LET f == FirstHolding(raw, i) IN
                            /\ out[i].id = out[j].id
                            /\ out[i] = out[j]
                            /\ out[j] = out[f]
                            /\ IF IsScalar(raw[f])
                               THEN out[f] = raw[f]
                               ELSE /\ IsScalar(out[f])
                                    /\ out[f].id > NumScalars
                                    /\ out[f].val = raw[f].val

C3_Witness ==
    /\ pc = "done"
    /\ InList("x") = <<PoolScalar(2), Num(1), PoolScalar(1)>>
    /\ Normalized("x")[1] = PoolScalar(2)
    /\ Normalized("x")[3] = PoolScalar(2)
    /\ Normalized("x")[2].id > NumScalars

\* C4: after construction, entry r of the map is the smallest site whose
\* normalized x-field equals, by value, that of site r.
C4_EquivalenceMap ==
    pc = "done" =>
        /\ Len(result) = L
        /\ \A r \in 1..L : result[r] = SmallestEqual(Normalized("x"), r) - 1

C4_Witness ==
    /\ pc = "done"
    /\ InList("x") = <<Num(1), PoolScalar(3), PoolScalar(1)>>
    /\ result = <<0, 1, 0>>

\* C5: after a successful construction L >= 1, z_fields and x_fields have L
\* entries, zz_couplers has L-1 and the map has L.
C5_Sizes ==
    pc = "done" =>
        /\ L >= 1
        /\ Len(Normalized("z")) = L
        /\ Len(Normalized("x")) = L
        /\ Len(Normalized("zz")) = L - 1
        /\ Len(result) = L

C5_Witness ==
    /\ pc = "done"
    /\ L = 3
    /\ Supplied("x")
    /\ z_fields # NoneRef /\ ~Supplied("z")
    /\ zz_couplers = NoneRef
    /\ Len(Normalized("zz")) = 2

\* C6: an argument that is None or empty is replaced by zeros of the required
\* size (L, or L-1 for the couplers), and its normalized sequence holds that
\* many Scalars of value zero.
C6_ZeroDefaults ==
    \A w \in Attrs :
        ~Supplied(w) =>
            /\ (which = w /\ pc = "outer" /\ idx1 = 0) =>
                   heap[ctor_param] = [i \in 1..RequiredSize(w) |-> Num(0)]
            /\ pc = "done" =>
                   /\ Len(Normalized(w)) = RequiredSize(w)
                   /\ \A i \in 1..Len(Normalized(w)) :
                          /\ IsScalar(Normalized(w)[i])
                          /\ Normalized(w)[i].val = 0
                          /\ Normalized(w)[i].wraps = 1

C6_Witness ==
    /\ pc = "done"
    /\ z_fields = NoneRef
    /\ x_fields # NoneRef /\ ~Supplied("x")
    /\ Len(InList("zz")) = 2
    /\ Len(Normalized("z")) = 3
    /\ Len(Normalized("x")) = 3

\* C7: after construction, every normalized entry is a Scalar around a plain value (wrapped once),
\* and where the raw element was a Scalar the entry has that Scalar's value.
C7_WrappedOnce ==
    \A w \in Attrs :
        pc = "done" =>
            \A i \in 1..Len(Normalized(w)) :
                /\ IsScalar(Normalized(w)[i])
                /\ Normalized(w)[i].wraps = 1
                /\ IsScalar(RawOf(w)[i]) => Normalized(w)[i].val = RawOf(w)[i].val

C7_Witness ==
    /\ pc = "done"
    /\ InList("z") = <<Num(0), PoolScalar(1), PoolScalar(3)>>
    /\ Normalized("z")[2] = PoolScalar(1)
    /\ Normalized("z")[3] = PoolScalar(3)

\* C8: when x_fields is None or empty, every entry of the map is 0.
C8_DefaultsCollapse ==
    (pc = "done" /\ ~Supplied("x")) => result = [r \in 1..L |-> 0]

C8_Witness ==
    /\ pc = "done"
    /\ x_fields = NoneRef
    /\ L = 3
    /\ result = <<0, 0, 0>>

\* C9: the caller's three sequences keep their length and their elements.
C9_InputsUnchanged ==
    \A w \in Attrs : heap[InRef(w)] = heap0[InRef(w)]

C9_Witness ==
    /\ pc = "done"
    /\ InList("zz") = <<Num(1), Num(1)>>
    /\ heap[InRef("zz")] = <<Num(1), Num(1)>>
    /\ Normalized("zz")[1] = Normalized("zz")[2]
    /\ IsScalar(Normalized("zz")[1])

\* C10: a position marked in elem_already_set is not used as the reference
\* idx1 of a scan over the later positions.
C10_ResolvedSkipped ==
    ~(pc = "inner" /\ idx2 < array_size /\ elem_already_set[idx1 + 1])

====
